---- MODULE Spec2Model ----
(***************************************************************************)
(* Model of lidar_localization::Matching (src/src/matching/matching.cpp):  *)
(* construction from the configuration, the sliding local map, the         *)
(* per-scan Update with its pose predictor, and the two initialization     *)
(* paths (GNSS pose stream, scan-context proposal).                        *)
(*                                                                         *)
(* Poses are rigid transforms restricted to rotations about z by multiples *)
(* of 90 degrees and integer translations; point clouds are sets of        *)
(* integer points.                                                         *)
(***************************************************************************)
EXTENDS Integers, Sequences, FiniteSets, TLC

\* ------------------------------------------------------------------ bounds
\* SetGNSSPose is called at most this many times (gnss_cnt is unbounded).
MaxGnssCnt == 6
\* Registration results reach up to MaxStep strides along x.
MaxStep == 1

\* ------------------------------------------------------------------ poses
Vec(x, y, z) == <<x, y, z>>

VAdd(a, b) == <<a[1] + b[1], a[2] + b[2], a[3] + b[3]>>

VNeg(a) == <<-a[1], -a[2], -a[3]>>

\* Rotation about z by r quarter turns.
Rot(r, v) ==
    CASE r % 4 = 0 -> v
      [] r % 4 = 1 -> <<-v[2], v[1], v[3]>>
      [] r % 4 = 2 -> <<-v[1], -v[2], v[3]>>
      [] r % 4 = 3 -> <<v[2], -v[1], v[3]>>

MkPose(r, t) == [r |-> r % 4, t |-> t]

\* Eigen::Matrix4f::Identity()
Identity == MkPose(0, Vec(0, 0, 0))

\* Matrix product A * B of two rigid transforms.
Mul(A, B) == MkPose(A.r + B.r, VAdd(Rot(A.r, B.t), A.t))

\* Matrix inverse of a rigid transform.
Inverse(A) == MkPose(4 - A.r, Rot(4 - A.r, VNeg(A.t)))

\* cloud_pose(i, 3), i = 0..2 (1-based here)
Translation(P, i) == P.t[i]

Abs(x) == IF x < 0 THEN -x ELSE x

\* ------------------------------------------------------------ collaborators
\* Stride between the poses the collaborators hand in.
Stride == <<45, 45, 45>>

Axis(i, k) == [j \in 1..3 |-> IF j = i THEN k * Stride[i] ELSE 0]

\* Poses the registration engine may return (ScanMatch's cloud_pose): up to
\* MaxStep strides along x turned by as many quarter turns, and one stride along
\* y turned by a half turn.
RegPoses == {MkPose(k, Axis(1, k)) : k \in 0..MaxStep} \cup {MkPose(2, Axis(2, 1))}

\* Origins the host recentres the local map on.
Origins == {Axis(2, 2)}

\* Poses the GNSS stream delivers.
GnssPoses == {MkPose(0, Axis(1, 1)), MkPose(1, Axis(2, 1))}

\* Pose the scan-context index proposes on a match.
ScanContextPoses == {MkPose(3, Axis(1, 2))}

\* The map file's point cloud.
MapFile ==
    {Vec(0, 0, 0), Vec(2, 0, 0), Vec(45, 0, 0), Vec(0, 45, 0),
     Vec(120, 0, 0), Vec(0, 0, 200)}

\* Incoming scans; a point is a coordinate vector or not finite.
Scans ==
    {{[v |-> Vec(1, 0, 0), finite |-> TRUE], [v |-> Vec(0, 2, 0), finite |-> TRUE],
      [v |-> Vec(0, 0, 0), finite |-> FALSE]}}

\* pcl::removeNaNFromPointCloud
RemoveNaN(cloud) == {p \in cloud : p.finite}

\* pcl::transformPointCloud
TransformPointCloud(cloud, P) == {VAdd(Rot(P.r, p.v), P.t) : p \in cloud}

\* VoxelFilter: one centroid per occupied voxel of edge LeafSize.
LeafSize == <<4, 4, 4>>

Voxel(p) == <<p[1] \div LeafSize[1], p[2] \div LeafSize[2], p[3] \div LeafSize[3]>>

RECURSIVE VSum(_)
VSum(S) ==
    IF S = {} THEN Vec(0, 0, 0)
    ELSE LET p == CHOOSE q \in S : TRUE IN VAdd(p, VSum(S \ {p}))

Centroid(S) ==
    LET s == VSum(S) n == Cardinality(S)
    IN  <<s[1] \div n, s[2] \div n, s[3] \div n>>

VoxelFilter(cloud) ==
    {Centroid({q \in cloud : Voxel(q) = Voxel(p)}) : p \in cloud}

\* CloudFilterInterface::Filter through a configured filter handle.
ApplyFilter(filter_ptr, cloud) ==
    IF filter_ptr = "voxel_filter" THEN VoxelFilter(cloud) ELSE cloud

\* BoxFilter::SetOrigin: the six edges around origin for the configured size.
BoxEdge(size, origin) ==
    <<origin[1] - size[1], origin[1] + size[1],
      origin[2] - size[2], origin[2] + size[2],
      origin[3] - size[3], origin[3] + size[3]>>

\* BoxFilter::Filter: the points inside the edges.
BoxFilter(edge, cloud) ==
    {p \in cloud : \A i \in 1..3 : edge[2 * i - 1] <= p[i] /\ p[i] <= edge[2 * i]}

\* ------------------------------------------------------------ configuration
\* matching.yaml: method names per role and the box filter size.
MkConfig(reg, gmf, lmf, ff, size) ==
    [registration_method |-> reg, global_map_filter |-> gmf,
     local_map_filter |-> lmf, frame_filter |-> ff, box_filter_size |-> size]

\* Configurations whose method names are all known.
ValidConfigs ==
    {MkConfig("NDT", "voxel_filter", "no_filter", "voxel_filter", <<95, 60, 60>>),
     MkConfig("NDT", "no_filter", "voxel_filter", "no_filter", <<150, 150, 10>>)}

\* Configurations naming one unknown registration or filter method.
BadConfigs ==
    {MkConfig("ICP", "no_filter", "no_filter", "no_filter", <<60, 60, 60>>),
     MkConfig("NDT", "bilateral", "no_filter", "no_filter", <<60, 60, 60>>),
     MkConfig("NDT", "no_filter", "bilateral", "no_filter", <<60, 60, 60>>),
     MkConfig("NDT", "no_filter", "no_filter", "bilateral", <<60, 60, 60>>)}

ConfigIsValid(c) ==
    /\ c.registration_method = "NDT"
    /\ \A f \in {c.global_map_filter, c.local_map_filter, c.frame_filter} :
           f \in {"voxel_filter", "no_filter"}

\* ------------------------------------------------------------------- state
VARIABLES
    config,                  \* the loaded matching.yaml
    pc,                      \* "new", "configured", "loaded", "ready", "crashed"
    registration_ptr_,       \* "null" or "NDT"
    global_map_filter_ptr_,  \* "null", "voxel_filter" or "no_filter"
    local_map_filter_ptr_,
    frame_filter_ptr_,
    box_filter_ptr_,         \* [null, size, origin, edge]
    global_map_ptr_,         \* point clouds
    local_map_ptr_,
    current_scan_ptr_,
    input_target,            \* cloud given to RegistrationInterface::SetInputTarget
    has_inited_,
    has_new_global_map_,
    has_new_local_map_,
    init_pose_,
    current_gnss_pose_,
    gnss_cnt,                \* static of SetGNSSPose
    statics,                 \* statics of Update: [inited, step_pose, last_pose, predict_pose]
    last,                    \* the last call: what it was given, did and returned
    scan_thread,             \* where a thread inside Update stands, and its locals
    consumer_thread          \* what a thread reading GetCurrentScan() last saw

vars ==
    <<config, pc, registration_ptr_, global_map_filter_ptr_, local_map_filter_ptr_,
      frame_filter_ptr_, box_filter_ptr_, global_map_ptr_, local_map_ptr_,
      current_scan_ptr_, input_target, has_inited_, has_new_global_map_,
      has_new_local_map_, init_pose_, current_gnss_pose_, gnss_cnt, statics, last,
      scan_thread, consumer_thread>>

threads == <<scan_thread, consumer_thread>>

pointers ==
    <<registration_ptr_, global_map_filter_ptr_, local_map_filter_ptr_,
      frame_filter_ptr_>>

NoEdge == <<0, 0, 0, 0, 0, 0>>

\* The record of a call: op, its return value, has_inited_ at its entry, and for
\* SetScanContextPose whether the index found a match, for Update the engine's
\* verdict, the seed of each ScanMatch call, the poses handed back and the edges
\* read after matching; resets lists the origins of the ResetLocalMap calls the
\* call made, cloud is the cloud it handed out.
Call(op, ret) ==
    [op |-> op, ret |-> ret, entry |-> has_inited_, found |-> FALSE,
     converged |-> TRUE,
     seeds |-> <<>>, poses |-> <<>>, edge |-> NoEdge, resets |-> <<>>, cloud |-> {}]

\* A thread that is not inside Update.
Idle ==
    [at |-> "idle", cloud_data |-> {}, cloud_pose |-> Identity,
     converged |-> TRUE, predict_pose |-> Identity]

\* Member defaults and the constructor's initializer list.
InitHasInited == FALSE

InitHasNewGlobalMap == FALSE

InitHasNewLocalMap == FALSE

InitPoseDefault == Identity

InitGnssPoseDefault == Identity

InitMembers ==
    /\ pc = "new"
    /\ registration_ptr_ = "null"
    /\ global_map_filter_ptr_ = "null"
    /\ local_map_filter_ptr_ = "null"
    /\ frame_filter_ptr_ = "null"
    /\ box_filter_ptr_ = [null |-> TRUE, size |-> <<0, 0, 0>>,
                          origin |-> Vec(0, 0, 0), edge |-> NoEdge]
    /\ global_map_ptr_ = {}
    /\ local_map_ptr_ = {}
    /\ current_scan_ptr_ = {}
    /\ input_target = {}
    /\ has_inited_ = InitHasInited
    /\ has_new_global_map_ = InitHasNewGlobalMap
    /\ has_new_local_map_ = InitHasNewLocalMap
    /\ init_pose_ = InitPoseDefault
    /\ current_gnss_pose_ = InitGnssPoseDefault
    /\ gnss_cnt = 0
    /\ statics = [inited |-> FALSE, step_pose |-> Identity,
                  last_pose |-> Identity, predict_pose |-> Identity]
    /\ last = Call("new", TRUE)
    /\ scan_thread = Idle
    /\ consumer_thread = [read |-> FALSE, cloud |-> {}]

\* Construction with a configuration whose method names are all known.
Init == config \in ValidConfigs /\ InitMembers

\* Construction with any configuration.
InitAnyConfig == config \in (ValidConfigs \cup BadConfigs) /\ InitMembers

\* ------------------------------------------------------------ construction
\* InitRegistration: the engine handle, and the value returned.
InitRegistration(registration_method) ==
    IF registration_method = "NDT"
    THEN [ptr |-> "NDT", ret |-> TRUE]
    ELSE [ptr |-> "null", ret |-> FALSE]

\* InitFilter: the filter handle, and the value returned.
InitFilter(filter_mothod) ==
    IF filter_mothod = "voxel_filter" THEN [ptr |-> "voxel_filter", ret |-> TRUE]
    ELSE IF filter_mothod = "no_filter" THEN [ptr |-> "no_filter", ret |-> TRUE]
    ELSE [ptr |-> "null", ret |-> FALSE]

\* InitBoxFilter: the box filter built from the configured size, at the origin.
InitBoxFilter(size) ==
    [null |-> FALSE, size |-> size, origin |-> Vec(0, 0, 0),
     edge |-> BoxEdge(size, Vec(0, 0, 0))]

\* What InitWithConfig returns, whatever the Init* calls returned.
InitWithConfigReturn(rets) == TRUE

\* The constructor's first call.  The values the Init* calls return are dropped.
InitWithConfig ==
    /\ pc = "new"
    /\ registration_ptr_' = InitRegistration(config.registration_method).ptr
    /\ global_map_filter_ptr_' = InitFilter(config.global_map_filter).ptr
    /\ box_filter_ptr_' = InitBoxFilter(config.box_filter_size)
    /\ local_map_filter_ptr_' = InitFilter(config.local_map_filter).ptr
    /\ frame_filter_ptr_' = InitFilter(config.frame_filter).ptr
    /\ last' = Call("InitWithConfig",
                    InitWithConfigReturn(
                        {InitRegistration(config.registration_method).ret,
                         InitFilter(config.global_map_filter).ret,
                         InitFilter(config.local_map_filter).ret,
                         InitFilter(config.frame_filter).ret}))
    /\ pc' = "configured"
    /\ UNCHANGED threads
    /\ UNCHANGED <<config, global_map_ptr_, local_map_ptr_, current_scan_ptr_,
                   input_target, has_inited_, has_new_global_map_,
                   has_new_local_map_, init_pose_, current_gnss_pose_, gnss_cnt,
                   statics>>

\* Slip: the loaded map is kept as read, the filter call is missing.
LoadedGlobalMapUnfiltered(local_map_filter, cloud) == cloud

\* The global map after loadPCDFile and the Filter call on it, which writes
\* its output back into global_map_ptr_.
LoadedGlobalMap(local_map_filter, cloud) == ApplyFilter(local_map_filter, cloud)

\* The constructor's second call.  A call through an unset filter handle is a
\* call through a null pointer: the process stops there.
InitGlobalMap ==
    /\ pc = "configured"
    /\ IF local_map_filter_ptr_ = "null"
       THEN /\ global_map_ptr_' = MapFile
            /\ pc' = "crashed"
            /\ UNCHANGED has_new_global_map_
       ELSE /\ global_map_ptr_' = LoadedGlobalMap(local_map_filter_ptr_, MapFile)
            /\ has_new_global_map_' = TRUE
            /\ pc' = "loaded"
    /\ last' = Call("InitGlobalMap", TRUE)
    /\ UNCHANGED threads
    /\ UNCHANGED <<config, pointers, box_filter_ptr_, local_map_ptr_,
                   current_scan_ptr_, input_target, has_inited_,
                   has_new_local_map_, init_pose_, current_gnss_pose_, gnss_cnt,
                   statics>>

\* ------------------------------------------------------------ ResetLocalMap
\* The box filter after SetOrigin(origin).
SetOrigin(box, origin) ==
    [box EXCEPT !.origin = origin, !.edge = BoxEdge(box.size, origin)]

\* Slip: Filter runs before SetOrigin, on the edges of the previous origin.
LocalMapStaleOrigin(box, origin, global_map) == BoxFilter(box.edge, global_map)

\* The local map ResetLocalMap cuts out of the global map.
LocalMapAround(box, origin, global_map) ==
    BoxFilter(SetOrigin(box, origin).edge, global_map)

\* ResetLocalMap(x, y, z) as part of a call that continues at pc value next.
ResetLocalMap(origin, next) ==
    /\ box_filter_ptr_' = SetOrigin(box_filter_ptr_, origin)
    /\ local_map_ptr_' = LocalMapAround(box_filter_ptr_, origin, global_map_ptr_)
    /\ IF registration_ptr_ = "null"
       THEN /\ pc' = "crashed"
            /\ UNCHANGED <<input_target, has_new_local_map_>>
       ELSE /\ input_target' = local_map_ptr_'
            /\ has_new_local_map_' = TRUE
            /\ pc' = next

\* The constructor's third call, ResetLocalMap(0.0, 0.0, 0.0).
ConstructorResetLocalMap ==
    /\ pc = "loaded"
    /\ ResetLocalMap(Vec(0, 0, 0), "ready")
    /\ last' = [Call("ResetLocalMap", TRUE) EXCEPT !.resets = <<Vec(0, 0, 0)>>]
    /\ UNCHANGED threads
    /\ UNCHANGED <<config, pointers, global_map_ptr_, current_scan_ptr_,
                   has_inited_, has_new_global_map_, init_pose_,
                   current_gnss_pose_, gnss_cnt, statics>>

\* ResetLocalMap called by the host.
ResetLocalMapAround(origin) ==
    /\ pc = "ready"
    /\ ResetLocalMap(origin, "ready")
    /\ last' = [Call("ResetLocalMap", TRUE) EXCEPT !.resets = <<origin>>]
    /\ UNCHANGED threads
    /\ UNCHANGED <<config, pointers, global_map_ptr_, current_scan_ptr_,
                   has_inited_, has_new_global_map_, init_pose_,
                   current_gnss_pose_, gnss_cnt, statics>>

\* ------------------------------------------------------------------ Update
\* Slip: the statics start from the identity instead of init_pose_.
StaticsAtEntryIdentity(st, init_pose) ==
    IF st.inited THEN st
    ELSE [inited |-> TRUE, step_pose |-> Identity,
          last_pose |-> Identity, predict_pose |-> Identity]

\* The function statics on entry: initialized from init_pose_ by the first call.
StaticsAtEntry(st, init_pose) ==
    IF st.inited THEN st
    ELSE [inited |-> TRUE, step_pose |-> Identity,
          last_pose |-> init_pose, predict_pose |-> init_pose]

\* Slip: the GNSS pose never overrides the prediction.
SeedIgnoresGnss(has_inited, gnss_pose, predict_pose) == predict_pose

\* predict_pose after "if (!has_inited_) predict_pose = current_gnss_pose_".
Seed(has_inited, gnss_pose, predict_pose) ==
    IF ~has_inited THEN gnss_pose ELSE predict_pose

\* Slip: a second ScanMatch call with the same seed.
ScanMatchSeedsRetry(predict_pose) == <<predict_pose, predict_pose>>

\* The seeds of the ScanMatch calls one Update makes.
ScanMatchSeeds(predict_pose) == <<predict_pose>>

\* Slip: the step is taken on the wrong side, cloud_pose * inverse(last_pose).
PredictStepReversed(st, cloud_pose) ==
    LET step_pose == Mul(cloud_pose, Inverse(st.last_pose))
    IN  [inited |-> TRUE, step_pose |-> step_pose,
         predict_pose |-> Mul(cloud_pose, step_pose), last_pose |-> cloud_pose]

\* "update predicted pose": the statics after cloud_pose was found.
Predict(st, cloud_pose) ==
    LET step_pose == Mul(Inverse(st.last_pose), cloud_pose)
    IN  [inited |-> TRUE, step_pose |-> step_pose,
         predict_pose |-> Mul(cloud_pose, step_pose), last_pose |-> cloud_pose]

\* The margin of the local map check.
Margin == 50

\* Slip: >= for >, an axis exactly Margin from an edge counts as safe.
AxisIsSafeInclusive(cloud_pose, edge, i) ==
    /\ Abs(Translation(cloud_pose, i) - edge[2 * i - 1]) >= Margin
    /\ Abs(Translation(cloud_pose, i) - edge[2 * i]) >= Margin

\* The test that lets the loop continue with the next axis (i = 1..3).
AxisIsSafe(cloud_pose, edge, i) ==
    /\ Abs(Translation(cloud_pose, i) - edge[2 * i - 1]) > Margin
    /\ Abs(Translation(cloud_pose, i) - edge[2 * i]) > Margin

\* Slip: the loop stops after the x axis.
RefreshLoopFirstAxis(cloud_pose, edge, i) ==
    IF AxisIsSafe(cloud_pose, edge, 1) THEN <<>> ELSE <<cloud_pose.t>>

\* The loop over the axes from i on: the origins of its ResetLocalMap calls.
RECURSIVE RefreshLoop(_, _, _)
RefreshLoop(cloud_pose, edge, i) ==
    IF i > 3 THEN <<>>
    ELSE IF AxisIsSafe(cloud_pose, edge, i) THEN RefreshLoop(cloud_pose, edge, i + 1)
    ELSE <<cloud_pose.t>>

\* What Update returns.
UpdateReturn(converged) == TRUE

\* Update(cloud_data, cloud_pose); the engine answers cloud_pose and whether it
\* converged.  An unset frame filter is a call through a null pointer.
Update(scan, cloud_pose, converged) ==
    /\ pc = "ready"
    /\ LET entry == StaticsAtEntry(statics, init_pose_)
           cleaned == RemoveNaN(scan)
           predict_pose == Seed(has_inited_, current_gnss_pose_, entry.predict_pose)
           edge == box_filter_ptr_.edge
           resets == RefreshLoop(cloud_pose, edge, 1)
       IN  IF frame_filter_ptr_ = "null"
           THEN /\ statics' = entry
                /\ pc' = "crashed"
                /\ last' = Call("Update", TRUE)
                /\ UNCHANGED <<current_scan_ptr_, box_filter_ptr_, local_map_ptr_,
                               input_target, has_new_local_map_>>
           ELSE /\ current_scan_ptr_' = TransformPointCloud(cleaned, cloud_pose)
                /\ statics' = Predict(entry, cloud_pose)
                /\ IF resets = <<>>
                   THEN UNCHANGED <<pc, box_filter_ptr_, local_map_ptr_,
                                    input_target, has_new_local_map_>>
                   ELSE ResetLocalMap(resets[Len(resets)], "ready")
                /\ last' = [Call("Update", UpdateReturn(converged)) EXCEPT
                               !.converged = converged,
                               !.seeds = ScanMatchSeeds(predict_pose),
                               !.poses = <<cloud_pose>>,
                               !.edge = edge,
                               !.resets = resets]
    /\ UNCHANGED threads
    /\ UNCHANGED <<config, pointers, global_map_ptr_, has_inited_,
                   has_new_global_map_, init_pose_, current_gnss_pose_, gnss_cnt>>

\* ------------------------------------------------- Update beside a reader
\* Update as a thread runs it while another thread reads: no statement of
\* Update, ResetLocalMap or the getters takes a lock, so a reader can run
\* between any two of its writes.
\* Update up to the return of ScanMatch: the statics are initialized, the scan
\* is cleaned and filtered, the seed chosen, the engine answers cloud_pose.
\* Taken with every filter handle set, as after construction under Init.
UpdateScanMatch(scan, cloud_pose, converged) ==
    /\ pc = "ready"
    /\ frame_filter_ptr_ # "null"
    /\ scan_thread.at = "idle"
    /\ statics' = StaticsAtEntry(statics, init_pose_)
    /\ scan_thread' =
           [at |-> "transformPointCloud", cloud_data |-> RemoveNaN(scan),
            cloud_pose |-> cloud_pose, converged |-> converged,
            predict_pose |-> Seed(has_inited_, current_gnss_pose_,
                                  statics'.predict_pose)]
    /\ UNCHANGED <<config, pc, pointers, box_filter_ptr_, global_map_ptr_,
                   local_map_ptr_, current_scan_ptr_, input_target, has_inited_,
                   has_new_global_map_, has_new_local_map_, init_pose_,
                   current_gnss_pose_, gnss_cnt, last, consumer_thread>>

\* What pcl::transformPointCloud is to leave in *current_scan_ptr_.
TransformTarget == TransformPointCloud(scan_thread.cloud_data, scan_thread.cloud_pose)

\* One write of pcl::transformPointCloud through current_scan_ptr_: the cloud
\* of the previous Update is overwritten in place, a point at a time.
TransformPoint ==
    /\ scan_thread.at = "transformPointCloud"
    /\ current_scan_ptr_ # TransformTarget
    /\ LET stale == current_scan_ptr_ \ TransformTarget
           todo == TransformTarget \ current_scan_ptr_
       IN  \E old \in (IF stale = {} THEN {{}} ELSE {{p} : p \in stale}),
              new \in (IF todo = {} THEN {{}} ELSE {{p} : p \in todo}) :
               current_scan_ptr_' = (current_scan_ptr_ \ old) \cup new
    /\ UNCHANGED <<config, pc, pointers, box_filter_ptr_, global_map_ptr_,
                   local_map_ptr_, input_target, has_inited_,
                   has_new_global_map_, has_new_local_map_, init_pose_,
                   current_gnss_pose_, gnss_cnt, statics, last, threads>>

\* Update from "update predicted pose" to its return.
UpdatePredict ==
    /\ scan_thread.at = "transformPointCloud"
    /\ current_scan_ptr_ = TransformTarget
    /\ LET cloud_pose == scan_thread.cloud_pose
           edge == box_filter_ptr_.edge
           resets == RefreshLoop(cloud_pose, edge, 1)
       IN  /\ statics' = Predict(statics, cloud_pose)
           /\ IF resets = <<>>
              THEN UNCHANGED <<pc, box_filter_ptr_, local_map_ptr_,
                               input_target, has_new_local_map_>>
              ELSE ResetLocalMap(resets[Len(resets)], "ready")
           /\ last' = [Call("Update", UpdateReturn(scan_thread.converged)) EXCEPT
                          !.converged = scan_thread.converged,
                          !.seeds = ScanMatchSeeds(scan_thread.predict_pose),
                          !.poses = <<cloud_pose>>,
                          !.edge = edge,
                          !.resets = resets]
    /\ scan_thread' = Idle
    /\ UNCHANGED <<config, pointers, global_map_ptr_, current_scan_ptr_,
                   has_inited_, has_new_global_map_, init_pose_,
                   current_gnss_pose_, gnss_cnt, consumer_thread>>

\* GetCurrentScan() on the reader's thread: it is handed current_scan_ptr_,
\* the cloud Update writes through, and reads what the cloud holds then.
GetCurrentScan ==
    /\ pc = "ready"
    /\ consumer_thread' = [read |-> TRUE, cloud |-> current_scan_ptr_]
    /\ UNCHANGED <<config, pc, pointers, box_filter_ptr_, global_map_ptr_,
                   local_map_ptr_, current_scan_ptr_, input_target, has_inited_,
                   has_new_global_map_, has_new_local_map_, init_pose_,
                   current_gnss_pose_, gnss_cnt, statics, last, scan_thread>>

\* ----------------------------------------------------------- initialization
\* Slip: the pose is committed, the local map is left where it is.
SetInitPoseNoReset(init_pose) ==
    /\ init_pose_' = init_pose
    /\ UNCHANGED <<pc, box_filter_ptr_, local_map_ptr_, input_target,
                   has_new_local_map_>>

\* Slip: a pose already committed is kept, the first writer wins.
SetInitPoseFirstWriter(init_pose) ==
    IF init_pose_ = InitPoseDefault
    THEN /\ init_pose_' = init_pose
         /\ ResetLocalMap(init_pose.t, "ready")
    ELSE UNCHANGED <<pc, init_pose_, box_filter_ptr_, local_map_ptr_,
                     input_target, has_new_local_map_>>

\* SetInitPose(init_pose) as part of a call.
SetInitPose(init_pose) ==
    /\ init_pose_' = init_pose
    /\ ResetLocalMap(init_pose.t, "ready")

\* The threshold of SetGNSSPose.
GnssThreshold == 3

\* Slip: >= for >, the flag is set one call early.
GnssBranchOffByOne(cnt) ==
    IF cnt = 0 THEN "SetInitPose"
    ELSE IF cnt >= GnssThreshold THEN "has_inited"
    ELSE "none"

\* Slip: the pose is committed again on every call up to the threshold.
GnssBranchRecommit(cnt) ==
    IF cnt <= GnssThreshold THEN "SetInitPose" ELSE "has_inited"

\* The branch SetGNSSPose takes for a value of gnss_cnt.
GnssBranch(cnt) ==
    IF cnt = 0 THEN "SetInitPose"
    ELSE IF cnt > GnssThreshold THEN "has_inited"
    ELSE "none"

\* Slip: the flag is assigned the test instead of being set under it.
HasInitedAssigned(cnt, has_inited) == cnt > GnssThreshold

\* has_inited_ after the branch.
HasInitedAfterGnss(cnt, has_inited) ==
    IF GnssBranch(cnt) = "has_inited" THEN TRUE ELSE has_inited

SetGNSSPose(gnss_pose) ==
    /\ pc = "ready"
    /\ gnss_cnt < MaxGnssCnt
    /\ current_gnss_pose_' = gnss_pose
    /\ has_inited_' = HasInitedAfterGnss(gnss_cnt, has_inited_)
    /\ IF GnssBranch(gnss_cnt) = "SetInitPose"
       THEN /\ SetInitPose(gnss_pose)
            /\ last' = [Call("SetGNSSPose", TRUE) EXCEPT !.resets = <<gnss_pose.t>>]
       ELSE /\ last' = Call("SetGNSSPose", TRUE)
            /\ UNCHANGED <<pc, init_pose_, box_filter_ptr_, local_map_ptr_,
                           input_target, has_new_local_map_>>
    /\ gnss_cnt' = gnss_cnt + 1
    /\ UNCHANGED threads
    /\ UNCHANGED <<config, pointers, global_map_ptr_, current_scan_ptr_,
                   has_new_global_map_, statics>>

\* SetScanContextPose(init_scan); DetectLoopClosure answers found and, when
\* found, the proposed pose.
\* Slip: the result of DetectLoopClosure is not tested.
ScanContextNeverReturnsEarly(found) == FALSE

\* Whether SetScanContextPose returns at its first test.
ScanContextReturnsEarly(found) == ~found

SetScanContextPose(found, proposal) ==
    /\ pc = "ready"
    /\ LET init_pose == IF found THEN proposal ELSE Identity
       IN  IF ScanContextReturnsEarly(found)
           THEN /\ last' = [Call("SetScanContextPose", FALSE) EXCEPT !.found = found]
                /\ UNCHANGED <<pc, has_inited_, init_pose_, box_filter_ptr_,
                               local_map_ptr_, input_target, has_new_local_map_>>
           ELSE /\ SetInitPose(init_pose)
                /\ has_inited_' = TRUE
                /\ last' = [Call("SetScanContextPose", TRUE) EXCEPT
                               !.found = found, !.resets = <<init_pose.t>>]
    /\ UNCHANGED threads
    /\ UNCHANGED <<config, pointers, global_map_ptr_, current_scan_ptr_,
                   has_new_global_map_, current_gnss_pose_, gnss_cnt, statics>>

SetInited ==
    /\ pc = "ready"
    /\ has_inited_' = TRUE
    /\ last' = Call("SetInited", TRUE)
    /\ UNCHANGED threads
    /\ UNCHANGED <<config, pc, pointers, box_filter_ptr_, global_map_ptr_,
                   local_map_ptr_, current_scan_ptr_, input_target,
                   has_new_global_map_, has_new_local_map_, init_pose_,
                   current_gnss_pose_, gnss_cnt, statics>>

\* ------------------------------------------------------------------ queries
\* GetGlobalMap(global_map); an unset filter is a call through a null pointer.
GetGlobalMap ==
    /\ pc = "ready"
    /\ IF global_map_filter_ptr_ = "null"
       THEN /\ pc' = "crashed"
            /\ last' = Call("GetGlobalMap", TRUE)
            /\ UNCHANGED has_new_global_map_
       ELSE /\ has_new_global_map_' = FALSE
            /\ last' = [Call("GetGlobalMap", TRUE) EXCEPT
                           !.cloud = ApplyFilter(global_map_filter_ptr_, global_map_ptr_)]
            /\ UNCHANGED pc
    /\ UNCHANGED threads
    /\ UNCHANGED <<config, pointers, box_filter_ptr_, global_map_ptr_,
                   local_map_ptr_, current_scan_ptr_, input_target, has_inited_,
                   has_new_local_map_, init_pose_, current_gnss_pose_, gnss_cnt,
                   statics>>

\* has_new_local_map_ after GetLocalMap().
GetLocalMapFlag(has_new_local_map) == has_new_local_map

GetLocalMap ==
    /\ pc = "ready"
    /\ has_new_local_map_' = GetLocalMapFlag(has_new_local_map_)
    /\ last' = [Call("GetLocalMap", TRUE) EXCEPT !.cloud = local_map_ptr_]
    /\ UNCHANGED threads
    /\ UNCHANGED <<config, pc, pointers, box_filter_ptr_, global_map_ptr_,
                   local_map_ptr_, current_scan_ptr_, input_target, has_inited_,
                   has_new_global_map_, init_pose_, current_gnss_pose_, gnss_cnt,
                   statics>>

HasInited == has_inited_

HasNewGlobalMap == has_new_global_map_

HasNewLocalMap == has_new_local_map_

GetInitPose == init_pose_

\* ----------------------------------------------------------- specifications
Construct == InitWithConfig \/ InitGlobalMap \/ ConstructorResetLocalMap

DoUpdate == \E scan \in Scans, cloud_pose \in RegPoses, converged \in BOOLEAN :
                Update(scan, cloud_pose, converged)

DoSetGNSSPose == \E gnss_pose \in GnssPoses : SetGNSSPose(gnss_pose)

DoSetScanContextPose ==
    \E found \in BOOLEAN, proposal \in ScanContextPoses :
        SetScanContextPose(found, proposal)

DoResetLocalMap == \E origin \in Origins : ResetLocalMapAround(origin)

Next ==
    \/ Construct
    \/ DoUpdate
    \/ DoSetGNSSPose
    \/ DoSetScanContextPose
    \/ SetInited
    \/ DoResetLocalMap
    \/ GetGlobalMap
    \/ GetLocalMap

\* The orchestrator under a configuration whose method names are all known.
Spec == Init /\ [][Next]_vars

\* The orchestrator under any configuration.
SpecAnyConfig == InitAnyConfig /\ [][Next]_vars

\* Only the GNSS path initializes: no SetScanContextPose, no SetInited.
NextGnssOnly ==
    \/ Construct
    \/ DoSetGNSSPose
    \/ DoUpdate
    \/ GetLocalMap

SpecGnssOnly == Init /\ [][NextGnssOnly]_vars

\* Construction, then Update on one thread and GetCurrentScan on another.
DoUpdateScanMatch ==
    \E scan \in Scans, cloud_pose \in RegPoses, converged \in BOOLEAN :
        UpdateScanMatch(scan, cloud_pose, converged)

NextTwoThreads ==
    \/ Construct
    \/ DoUpdateScanMatch
    \/ TransformPoint
    \/ UpdatePredict
    \/ GetCurrentScan

SpecTwoThreads == Init /\ [][NextTwoThreads]_vars

\* ------------------------------------------------------------------ claims
\* The three states of the initialization arbiter, read off has_inited_ and gnss_cnt.
InitState ==
    IF has_inited_ THEN "Tracking"
    ELSE IF gnss_cnt = 0 THEN "Uninitialized"
    ELSE "CoarseFixPending"

\* C1 as stated: with SetGNSSPose the only initialization path, HasInited is
\* false after each of the first three calls and true from the 4th call on.
C1_TrackingFromFourthCall == pc = "ready" => (HasInited <=> gnss_cnt >= 4)

\* C1 amended: with SetGNSSPose the only initialization path, HasInited is false
\* after each of the first four calls and true from the 5th call on.
C1_TrackingFromFifthCall == pc = "ready" => (HasInited <=> gnss_cnt >= 5)

C1_Witness ==
    /\ last.op = "SetGNSSPose"
    /\ gnss_cnt = 5
    /\ HasInited
    /\ ~last.entry

\* C2: once HasInited is true it stays true, whatever is called next.
C2_TrackingIsTerminal == [][has_inited_ => has_inited_']_vars

C2_Witness ==
    /\ HasInited
    /\ last.entry
    /\ last.op = "SetGNSSPose"
    /\ gnss_cnt = 1

\* C3: a SetScanContextPose call that finds a match returns true, commits the
\* proposed pose as init_pose_, recentres the local map on its translation and
\* leaves HasInited true, whatever the state and gnss_cnt were.
C3_ScanContextSuccess ==
    (last.op = "SetScanContextPose" /\ last.found) =>
        /\ last.ret
        /\ HasInited
        /\ init_pose_ \in ScanContextPoses
        /\ last.resets = <<init_pose_.t>>
        /\ box_filter_ptr_.origin = init_pose_.t
        /\ box_filter_ptr_.edge = BoxEdge(config.box_filter_size, init_pose_.t)
        /\ local_map_ptr_ = BoxFilter(box_filter_ptr_.edge, global_map_ptr_)
        /\ input_target = local_map_ptr_

C3_Witness ==
    /\ last.op = "SetScanContextPose"
    /\ last.found
    /\ ~last.entry
    /\ gnss_cnt = 2
    /\ init_pose_ # current_gnss_pose_

\* C4: a SetScanContextPose call that finds no match returns false and changes
\* nothing: has_inited_, init_pose_, current_gnss_pose_, the box filter's origin
\* and edges, the local map, the registration target, both flags.
C4_ScanContextFailure ==
    /\ [](last.op = "SetScanContextPose" /\ ~last.found => ~last.ret)
    /\ [][(last'.op = "SetScanContextPose" /\ ~last'.found) =>
              UNCHANGED <<has_inited_, init_pose_, current_gnss_pose_,
                          box_filter_ptr_, local_map_ptr_, input_target,
                          has_new_global_map_, has_new_local_map_,
                          global_map_ptr_, current_scan_ptr_, gnss_cnt,
                          statics, pc>>]_vars

C4_Witness ==
    /\ last.op = "SetScanContextPose"
    /\ ~last.found
    /\ ~last.ret
    /\ InitState = "CoarseFixPending"

\* Axis i of pose p is within the margin of the near or the far edge.
WithinMargin(p, e, i) ==
    \/ Abs(p.t[i] - e[2 * i - 1]) <= Margin
    \/ Abs(p.t[i] - e[2 * i]) <= Margin

\* C5: in every Update, with e the edges in force during registration and p the
\* refined pose: if some axis of p is within the margin of an edge, exactly one
\* ResetLocalMap on p's translation is made; otherwise none is made and the box
\* filter, the local map and the registration target are unchanged.
C5_RefreshTrigger ==
    /\ [](last.op = "Update" =>
             IF \E i \in 1..3 : WithinMargin(last.poses[1], last.edge, i)
             THEN /\ last.resets = <<last.poses[1].t>>
                  /\ box_filter_ptr_.origin = last.poses[1].t
             ELSE last.resets = <<>>)
    /\ [][last'.op = "Update" =>
              /\ last'.edge = box_filter_ptr_.edge
              /\ (last'.resets = <<>> =>
                      UNCHANGED <<box_filter_ptr_, local_map_ptr_, input_target>>)]_vars

C5_Witness ==
    /\ last.op = "Update"
    /\ last.resets = <<last.poses[1].t>>
    /\ \E i \in 1..3 : Abs(last.poses[1].t[i] - last.edge[2 * i]) = Margin

C5_WitnessNoTrip ==
    /\ last.op = "Update"
    /\ last.resets = <<>>
    /\ last.poses[1] # Identity

\* C6 as stated: the seed given to ScanMatch is current_gnss_pose_ in state
\* Uninitialized and the predict_pose left by the previous Update in the states
\* CoarseFixPending and Tracking.
C6_SeedByArbiterState ==
    [][(last'.op = "Update" /\ statics.inited) =>
          last'.seeds = <<IF InitState = "Uninitialized"
                          THEN current_gnss_pose_
                          ELSE statics.predict_pose>>]_vars

\* C6 amended: the seed given to ScanMatch is current_gnss_pose_ (identity if
\* SetGNSSPose was never called) while HasInited is false, in Uninitialized and
\* CoarseFixPending alike; once HasInited is true it is the predict_pose left by
\* the previous Update, or init_pose_ in the first Update.
C6_SeedByHasInited ==
    [][last'.op = "Update" =>
          last'.seeds = <<IF ~has_inited_ THEN current_gnss_pose_
                          ELSE IF statics.inited THEN statics.predict_pose
                          ELSE init_pose_>>]_vars

C6_Witness ==
    /\ last.op = "Update"
    /\ InitState = "CoarseFixPending"
    /\ last.seeds = <<current_gnss_pose_>>
    /\ current_gnss_pose_ # init_pose_

\* C7: an Update in which the engine reports that it did not converge returns
\* false.
C7_UpdateReportsNonConvergence ==
    (last.op = "Update" /\ ~last.converged) => ~last.ret

\* C8: under a configuration naming an unknown registration or filter method,
\* InitWithConfig reports failure and nothing after it runs: no InitGlobalMap,
\* no ResetLocalMap, no Update.
C8_BadConfigAborts ==
    ~ConfigIsValid(config) =>
        /\ last.op \in {"new", "InitWithConfig"}
        /\ last.op = "InitWithConfig" => ~last.ret

\* C9: HasNewLocalMap is true after every ResetLocalMap and false after
\* GetLocalMap; HasNewGlobalMap is true after the map load and false after
\* GetGlobalMap.
C9_FlagsClearedOnRead ==
    /\ last.resets # <<>> => HasNewLocalMap
    /\ last.op = "GetLocalMap" => ~HasNewLocalMap
    /\ last.op = "InitGlobalMap" => HasNewGlobalMap
    /\ last.op = "GetGlobalMap" => ~HasNewGlobalMap

\* C10: every Update call, whatever the initialization state, runs to its end
\* and returns true after exactly one ScanMatch call, handing back exactly one
\* pose; the seed is the identity when no pose was submitted and SetInited was
\* not called.
C10_UpdateAccepted ==
    last.op = "Update" =>
        /\ pc = "ready"
        /\ last.ret
        /\ Len(last.seeds) = 1
        /\ Len(last.poses) = 1
        /\ InitState = "Uninitialized" => last.seeds = <<Identity>>

C10_Witness ==
    /\ last.op = "Update"
    /\ InitState = "Uninitialized"
    /\ last.seeds = <<Identity>>
    /\ statics.predict_pose # Identity

\* C11: in a sequence of SetGNSSPose calls exactly the first one commits its
\* pose as init_pose_ and resets the local map around it; every later call
\* records its pose as current_gnss_pose_ and leaves init_pose_, the box, the
\* local map and the registration target as they were.
C11_OnlyFirstGnssCommits ==
    [][\A gnss_pose \in GnssPoses :
          SetGNSSPose(gnss_pose) =>
              /\ current_gnss_pose_' = gnss_pose
              /\ IF gnss_cnt = 0
                 THEN /\ init_pose_' = gnss_pose
                      /\ last'.resets = <<gnss_pose.t>>
                      /\ box_filter_ptr_'.origin = gnss_pose.t
                      /\ local_map_ptr_' =
                             BoxFilter(box_filter_ptr_'.edge, global_map_ptr_)
                      /\ input_target' = local_map_ptr_'
                 ELSE /\ last'.resets = <<>>
                      /\ UNCHANGED <<init_pose_, box_filter_ptr_, local_map_ptr_,
                                     input_target>>]_vars

C11_Witness ==
    /\ last.op = "SetGNSSPose"
    /\ gnss_cnt = 3
    /\ last.resets = <<>>
    /\ current_gnss_pose_ # init_pose_
    /\ box_filter_ptr_.origin = init_pose_.t

\* C12: once constructed, whatever made the most recent ResetLocalMap call
\* (constructor, host, SetGNSSPose, SetScanContextPose or Update), the local map
\* is exactly what the box filter gives for the global map and that call's
\* origin: a subset of the global map, every point inside the edges around
\* that origin, every global map point inside them present and nothing else;
\* and the registration target is that same local map.
C12_LocalMapIsBoxOfGlobalMap ==
    pc = "ready" =>
        LET origin == box_filter_ptr_.origin
            edge == BoxEdge(box_filter_ptr_.size, origin)
        IN  /\ last.resets # <<>> => origin = last.resets[Len(last.resets)]
            /\ box_filter_ptr_.edge = edge
            /\ local_map_ptr_ \subseteq global_map_ptr_
            /\ \A p \in global_map_ptr_ :
                   p \in local_map_ptr_ <=>
                       \A i \in 1..3 : edge[2 * i - 1] <= p[i] /\ p[i] <= edge[2 * i]
            /\ input_target = local_map_ptr_

C12_Witness ==
    /\ pc = "ready"
    /\ last.op = "Update"
    /\ last.resets # <<>>
    /\ last.edge # box_filter_ptr_.edge
    /\ local_map_ptr_ # {}
    /\ local_map_ptr_ # global_map_ptr_
    /\ BoxFilter(last.edge, global_map_ptr_) \ local_map_ptr_ # {}

\* C13 as stated: in every Update made while HasInited is false, the first one
\* included, last_pose and predict_pose at the start of the call are the pose
\* of the most recent SetGNSSPose call (identity if there was none).  What the
\* call starts from shows in what it does: predict_pose is the seed of its
\* ScanMatch call, last_pose is the L of step_pose = inverse(L) * cloud_pose.
C13_PredictorStartsAtLatestGnss ==
    [][(last'.op = "Update" /\ ~has_inited_) =>
          /\ last'.seeds = <<current_gnss_pose_>>
          /\ statics'.step_pose =
                 Mul(Inverse(current_gnss_pose_), last'.poses[1])]_vars

\* C13 amended: in every Update made while HasInited is false, the seed is the
\* pose of the most recent SetGNSSPose call (identity if there was none);
\* last_pose is init_pose_ in the first Update ever and the pose the previous
\* Update handed back in every later one.
C13_PredictorStartsAtLastResult ==
    [][(last'.op = "Update" /\ ~has_inited_) =>
          /\ last'.seeds = <<current_gnss_pose_>>
          /\ statics'.step_pose =
                 Mul(Inverse(IF statics.inited THEN statics.last_pose
                             ELSE init_pose_),
                     last'.poses[1])
          /\ (statics.inited /\ last.op = "Update") =>
                 statics.last_pose = last.poses[1]]_vars

C13_Witness ==
    /\ last.op = "Update"
    /\ ~last.entry
    /\ gnss_cnt >= 2
    /\ last.seeds = <<current_gnss_pose_>>
    /\ statics.step_pose # Mul(Inverse(current_gnss_pose_), last.poses[1])
    /\ statics.step_pose = Mul(Inverse(init_pose_), last.poses[1])

\* C14: after each Update that hands back pose P while last_pose is L, the
\* statics hold predict_pose = P * (inverse(L) * P) and last_pose = P; when P
\* equals L the step is the identity and predict_pose is that same pose.
C14_ConstantStepExtrapolation ==
    [][last'.op = "Update" =>
          LET L == IF statics.inited THEN statics.last_pose ELSE init_pose_
              P == last'.poses[1]
          IN  /\ statics'.predict_pose = Mul(P, Mul(Inverse(L), P))
              /\ statics'.last_pose = P
              /\ P = L => /\ statics'.step_pose = Identity
                          /\ statics'.predict_pose = P]_vars

C14_Witness ==
    /\ last.op = "Update"
    /\ statics.last_pose = last.poses[1]
    /\ statics.last_pose.r # 0
    /\ statics.step_pose = Identity
    /\ statics.predict_pose = statics.last_pose

\* C15 as stated: once loaded, the global map held and given to the box filter
\* at each ResetLocalMap is exactly the cloud read from the map file; no filter
\* is applied to it in place and no operation changes it.
C15_GlobalMapAsLoaded ==
    pc \in {"loaded", "ready"} => global_map_ptr_ = MapFile

\* C15 amended: once loaded, the global map held and given to the box filter
\* at each ResetLocalMap is the cloud read from the map file after the local
\* map filter was applied to it in place by InitGlobalMap; no operation
\* changes it afterwards.
C15_GlobalMapFilteredAtLoad ==
    LET filtered == IF config.local_map_filter = "voxel_filter"
                    THEN VoxelFilter(MapFile) ELSE MapFile
    IN  /\ pc \in {"loaded", "ready"} => global_map_ptr_ = filtered
        /\ pc = "ready" => local_map_ptr_ = BoxFilter(box_filter_ptr_.edge, filtered)

C15_Witness ==
    /\ pc = "ready"
    /\ last.op = "Update"
    /\ last.resets # <<>>
    /\ config.local_map_filter = "voxel_filter"
    /\ Cardinality(global_map_ptr_) < Cardinality(MapFile)
    /\ local_map_ptr_ \ MapFile # {}

\* C16: SetInitPose is idempotent and the last writer wins.  After any call of
\* it, from SetGNSSPose or from SetScanContextPose, init_pose_, the box, the
\* local map, the registration target and has_new_local_map_ are what the pose
\* of that call alone determines, whatever was committed before; a second
\* call with the pose just committed leaves all five as the first left them.
C16_SetInitPoseLastWriterWins ==
    [][\A pose \in GnssPoses \cup ScanContextPoses :
          (\/ gnss_cnt = 0 /\ pose \in GnssPoses /\ SetGNSSPose(pose)
           \/ pose \in ScanContextPoses /\ SetScanContextPose(TRUE, pose)) =>
              /\ init_pose_' = pose
              /\ box_filter_ptr_' =
                     [box_filter_ptr_ EXCEPT
                         !.origin = pose.t,
                         !.edge = BoxEdge(box_filter_ptr_.size, pose.t)]
              /\ local_map_ptr_' =
                     BoxFilter(BoxEdge(box_filter_ptr_.size, pose.t), global_map_ptr_)
              /\ input_target' = local_map_ptr_'
              /\ has_new_local_map_'
              /\ (init_pose_ = pose /\ last.resets = <<pose.t>>
                      /\ last.op \in {"SetGNSSPose", "SetScanContextPose"}) =>
                     UNCHANGED <<init_pose_, box_filter_ptr_, local_map_ptr_,
                                 input_target, has_new_local_map_>>]_vars

C16_Witness ==
    /\ last.op = "SetScanContextPose"
    /\ last.found
    /\ gnss_cnt = 1
    /\ current_gnss_pose_ \in GnssPoses
    /\ init_pose_ \in ScanContextPoses
    /\ box_filter_ptr_.origin = init_pose_.t
    /\ box_filter_ptr_.origin # current_gnss_pose_.t

\* The clouds Update leaves in current_scan_ptr_ when it has returned, and the
\* empty cloud the constructor leaves there.
WholeScans ==
    {{}} \cup {TransformPointCloud(RemoveNaN(scan), cloud_pose) :
                  scan \in Scans, cloud_pose \in RegPoses}

\* C17: a thread that reads the current scan while another thread runs Update
\* never sees a partly replaced cloud, a mix of the points of the previous scan
\* and of the new one: what it reads is the whole cloud some Update left.
C17_ReaderSeesWholeScan ==
    consumer_thread.read => consumer_thread.cloud \in WholeScans

\* C18: when the box filter size is greater than Margin on all three axes,
\* then on return from every Update the pose handed back is farther than
\* Margin from both edges of the box now in force, on every axis: either no
\* axis was within the margin and the box is the one read after matching, or
\* the box was re-centred on the pose; an Update makes at most one
\* ResetLocalMap call.
C18_PoseClearOfEdgesAfterUpdate ==
    (last.op = "Update" /\ \A i \in 1..3 : box_filter_ptr_.size[i] > Margin) =>
        LET p == last.poses[1]
            e == box_filter_ptr_.edge
        IN  /\ \A i \in 1..3 : /\ Abs(p.t[i] - e[2 * i - 1]) > Margin
                               /\ Abs(p.t[i] - e[2 * i]) > Margin
            /\ Len(last.resets) <= 1
            /\ \/ last.resets = <<>> /\ e = last.edge
               \/ last.resets = <<p.t>> /\ box_filter_ptr_.origin = p.t

C18_Witness ==
    /\ last.op = "Update"
    /\ \A i \in 1..3 : box_filter_ptr_.size[i] > Margin
    /\ ~WithinMargin(last.poses[1], last.edge, 1)
    /\ WithinMargin(last.poses[1], last.edge, 2)
    /\ last.resets = <<last.poses[1].t>>
    /\ \A i \in 1..3 : ~WithinMargin(last.poses[1], box_filter_ptr_.edge, i)

\* The seed the next Update will hand to ScanMatch, as Update computes it.
NextUpdateSeed ==
    Seed(has_inited_, current_gnss_pose_,
         StaticsAtEntry(statics, init_pose_).predict_pose)

\* C19: once HasInited is true, a SetGNSSPose call that is not the first ever
\* changes nothing a later operation reads: init_pose_, the box, the local map,
\* the registration target, both has_new flags, HasInited, the statics of
\* Update and the seed of the next Update are as before the call.
C19_GnssInertOnceTracking ==
    [][\A gnss_pose \in GnssPoses :
          (has_inited_ /\ gnss_cnt > 0 /\ SetGNSSPose(gnss_pose)) =>
              /\ UNCHANGED <<init_pose_, box_filter_ptr_, local_map_ptr_,
                             input_target, has_new_local_map_,
                             has_new_global_map_, has_inited_, statics>>
              /\ NextUpdateSeed' = NextUpdateSeed]_vars

C19_Witness ==
    /\ last.op = "SetGNSSPose"
    /\ last.entry
    /\ has_inited_
    /\ gnss_cnt = 2
    /\ statics.inited
    /\ current_gnss_pose_ # NextUpdateSeed
    /\ current_gnss_pose_ # init_pose_

====
